---- MODULE Spec2Model ----
(***************************************************************************)
(* Regulatory Document Explorer (src/src/App.jsx): the App component as a  *)
(* state machine.  React state cells are the variables; every event        *)
(* handler, effect and promise continuation is one action.                 *)
(*                                                                         *)
(* JavaScript strings that the code compares with < and > (dates) or trims *)
(* (the keyword) are sequences of UTF-16 code units; strings that are only *)
(* compared for equality are TLA+ strings.  A JavaScript value that may be *)
(* undefined or null is a record tagged with its type.                     *)
(*                                                                         *)
(* Spec           the component as written                                 *)
(* SpecUnguarded  fetchDocs also called while a request is in flight       *)
(* SpecFilter     the filter panel over every short document list          *)
(* SpecBookmarks  the bookmark store over every short storage content      *)
(***************************************************************************)
EXTENDS Integers, Sequences, FiniteSets, TLC

\* ---------------------------------------------------------------- bounds
\* Most pages a session loads (caps the page counter).
MaxPage == 3
\* Longest document list SpecFilter starts from.
MaxDocs == 2
\* Longest raw storage text (in JSON tokens) SpecBookmarks starts from.
MaxRawLen == 5
\* Most requests in flight at once when the loading guard is bypassed.
MaxInflight == 2

\* ------------------------------------------------------- JavaScript values
JStr(s) == [t |-> "string", s |-> s]
JUndefined(empty) == [t |-> "undefined", s |-> empty]
JNull(empty) == [t |-> "null", s |-> empty]

\* "2024-01-01", "2024-03-15", "2024-04-01", "2024-12-31" as code units
\* ('0' = 48 ... '9' = 57, '-' = 45).
D20240101 == <<50, 48, 50, 52, 45, 48, 49, 45, 48, 49>>
D20240315 == <<50, 48, 50, 52, 45, 48, 51, 45, 49, 53>>
D20240401 == <<50, 48, 50, 52, 45, 48, 52, 45, 48, 49>>
D20241231 == <<50, 48, 50, 52, 45, 49, 50, 45, 51, 49>>

\* The documents the server may return (fields consumed by the component).
DocA == [document_number |-> "2024-05000",
         agencies |-> [t |-> "array", v |-> <<"EPA">>],
         document_type |-> JStr("Rule"),
         publication_date |-> JStr(D20240315)]
DocB == [document_number |-> "2024-05001",
         agencies |-> [t |-> "array", v |-> <<"EPA", "SEC">>],
         document_type |-> JStr("Notice"),
         publication_date |-> JStr(D20240101)]
\* no agencies, no type, no publication date
DocC == [document_number |-> "2024-05002",
         agencies |-> [t |-> "undefined", v |-> <<>>],
         document_type |-> JUndefined(""),
         publication_date |-> JUndefined(<<>>)]
\* publication date is the empty string
DocD == [document_number |-> "2024-05003",
         agencies |-> [t |-> "array", v |-> <<>>],
         document_type |-> JStr("Rule"),
         publication_date |-> JStr(<<>>)]
\* publication date is null
DocE == [document_number |-> "2024-05004",
         agencies |-> [t |-> "array", v |-> <<"SEC">>],
         document_type |-> JStr("Notice"),
         publication_date |-> JNull(<<>>)]

Universe == {DocA, DocB, DocC, DocD, DocE}

RECURSIVE SeqsUpTo(_, _)
SeqsUpTo(S, n) ==
  IF n = 0 THEN {<<>>}
  ELSE LET shorter == SeqsUpTo(S, n - 1)
       IN shorter \cup {Append(s, x) : s \in {r \in shorter : Len(r) = n - 1}, x \in S}

Range(s) == {s[i] : i \in DOMAIN s}

\* ------------------------------------------------------------ the filter
\* a < b on two strings: code units compared left to right, a proper prefix
\* is smaller.
RECURSIVE LexLess(_, _)
LexLess(a, b) ==
  IF b = <<>> THEN FALSE
  ELSE IF a = <<>> THEN TRUE
  ELSE IF Head(a) < Head(b) THEN TRUE
  ELSE IF Head(b) < Head(a) THEN FALSE
  ELSE LexLess(Tail(a), Tail(b))

\* pub < bound, bound a non-empty string: two strings compare by code units;
\* undefined converts to NaN, and null to 0 against a bound that converts to
\* NaN, so both comparisons are false.
JsLess(pub, bound) == IF pub.t = "string" THEN LexLess(pub.s, bound) ELSE FALSE
\* pub > bound
JsGreater(pub, bound) == IF pub.t = "string" THEN LexLess(bound, pub.s) ELSE FALSE

\* (d.agencies || []).map((a) => a.name)
AgencyNames(d) == IF d.agencies.t = "array" THEN d.agencies.v ELSE <<>>

\* startDate && pub < startDate
BeforeStart(pub, sd) == sd # <<>> /\ JsLess(pub, sd)
\* endDate && pub > endDate
AfterEnd(pub, ed) == ed # <<>> /\ JsGreater(pub, ed)

\* the callback of docs.filter
Passes(d, ag, ty, sd, ed) ==
  /\ ~(ag # "" /\ ag \notin Range(AgencyNames(d)))
  /\ ~(ty # "" /\ d.document_type # JStr(ty))
  /\ ~BeforeStart(d.publication_date, sd)
  /\ ~AfterEnd(d.publication_date, ed)

Filter(ds, ag, ty, sd, ed) == SelectSeq(ds, LAMBDA d : Passes(d, ag, ty, sd, ed))

\* the option lists of the two selects, as sets
AgencyOptions(ds) == UNION {Range(AgencyNames(ds[i])) : i \in DOMAIN ds}
TypeOptions(ds) ==
  {ds[i].document_type.s : i \in {j \in DOMAIN ds : ds[j].document_type.t = "string"
                                                  /\ ds[j].document_type.s # ""}}

\* ------------------------------------------------------------------ JSON
\* The text held under the storage key is a sequence of JSON tokens.
TokL == [k |-> "[", s |-> ""]
TokR == [k |-> "]", s |-> ""]
TokComma == [k |-> ",", s |-> ""]
TokNull == [k |-> "null", s |-> ""]
TokStr(x) == [k |-> "str", s |-> x]

Tokens == {TokL, TokR, TokComma, TokNull, TokStr("2024-05000")}

JsonString(x) == [t |-> "string", s |-> x, v |-> <<>>]
JsonNull == [t |-> "null", s |-> "", v |-> <<>>]
JsonArray(v) == [t |-> "array", s |-> "", v |-> v]

ParseFail == [ok |-> FALSE, val |-> JsonNull, rest |-> <<>>]

\* JSON.parse: one value, then nothing; anything else is a SyntaxError.
RECURSIVE ParseValue(_), ParseElements(_, _)
ParseValue(toks) ==
  IF toks = <<>> THEN ParseFail
  ELSE IF Head(toks).k = "null" THEN [ok |-> TRUE, val |-> JsonNull, rest |-> Tail(toks)]
  ELSE IF Head(toks).k = "str"
    THEN [ok |-> TRUE, val |-> JsonString(Head(toks).s), rest |-> Tail(toks)]
  ELSE IF Head(toks).k = "["
    THEN IF Tail(toks) # <<>> /\ Head(Tail(toks)).k = "]"
         THEN [ok |-> TRUE, val |-> JsonArray(<<>>), rest |-> Tail(Tail(toks))]
         ELSE ParseElements(Tail(toks), <<>>)
  ELSE ParseFail
ParseElements(toks, acc) ==
  LET r == ParseValue(toks)
  IN IF ~r.ok \/ r.rest = <<>> THEN ParseFail
     ELSE IF Head(r.rest).k = "," THEN ParseElements(Tail(r.rest), Append(acc, r.val))
     ELSE IF Head(r.rest).k = "]"
       THEN [ok |-> TRUE, val |-> JsonArray(Append(acc, r.val)), rest |-> Tail(r.rest)]
     ELSE ParseFail

JsonParse(raw) ==
  LET r == ParseValue(raw)
  IN IF r.ok /\ r.rest = <<>> THEN [ok |-> TRUE, val |-> r.val]
     ELSE [ok |-> FALSE, val |-> JsonNull]

\* JSON.stringify of a string, null or an array of such values
RECURSIVE JsonStringify(_), StringifyElements(_)
JsonStringify(val) ==
  IF val.t = "string" THEN <<TokStr(val.s)>>
  ELSE IF val.t = "null" THEN <<TokNull>>
  ELSE <<TokL>> \o StringifyElements(val.v) \o <<TokR>>
StringifyElements(v) ==
  IF v = <<>> THEN <<>>
  ELSE IF Len(v) = 1 THEN JsonStringify(v[1])
  ELSE JsonStringify(v[1]) \o <<TokComma>> \o StringifyElements(Tail(v))

\* ------------------------------------------------------- durable storage
\* The storage key: absent, unreadable (getItem and setItem throw), or text.
Absent == [t |-> "absent", raw |-> <<>>]
Blocked == [t |-> "blocked", raw |-> <<>>]
Text(raw) == [t |-> "text", raw |-> raw]

\* the useState initializer of useLocalStorage
LoadValue(st, initialValue) ==
  IF st.t = "blocked" THEN initialValue
  ELSE IF st.t = "absent" \/ st.raw = <<>> THEN initialValue
  ELSE IF JsonParse(st.raw).ok THEN JsonParse(st.raw).val
  ELSE initialValue

\* Faulty variant: the effect never writes.
StoreValueNever(st, value, ok) == st

\* the effect of useLocalStorage: setItem, a throw swallowed
StoreValue(st, value, ok) ==
  IF ok /\ st.t # "blocked" THEN Text(JsonStringify(value)) ELSE st

\* ---------------------------------------------------------------- keyword
RECURSIVE TrimStart(_)
TrimStart(s) == IF s # <<>> /\ Head(s) = " " THEN TrimStart(Tail(s)) ELSE s
RECURSIVE TrimEnd(_)
TrimEnd(s) ==
  IF s # <<>> /\ s[Len(s)] = " " THEN TrimEnd(SubSeq(s, 1, Len(s) - 1)) ELSE s
Trim(s) == TrimEnd(TrimStart(s))

\* the request URL, as its query parameters (conditions[term] present or not)
buildUrl(nextPage, keyword) ==
  [per_page |-> "20", order |-> "newest", page |-> nextPage,
   term |-> IF Trim(keyword) # <<>> THEN <<Trim(keyword)>> ELSE <<>>]

\* ------------------------------------------------------------------ state
VARIABLES
  pc,         \* "boot" before the first render, "running", or "crashed" (a
              \* render threw and React unmounted the tree)
  docs,       \* useState([])       line 31
  page,       \* useState(1)        line 32
  hasMore,    \* useState(true)     line 33
  loading,    \* useState(false)    line 34
  error,      \* useState("")       line 35
  selected,   \* useState(null)     line 36: <<>> for null, else <<document>>
  q,          \* useState("")       line 39
  agency,     \* useState("")       line 40
  docType,    \* useState("")       line 41
  startDate,  \* useState("")       line 42
  endDate,    \* useState("")       line 43
  bookmarks,  \* the value of the useLocalStorage cell, line 46
  storage,    \* the content of the storage key "regx_bookmarks"
  persisted,  \* whether the last setItem (line 25) returned normally
  inflight,   \* the fetchDocs calls awaiting their response, oldest first
  issued,     \* history: <<the result cells as the newest call in flight found
              \* them>>, or <<>> when no call is in flight
  outcome,    \* how the last fetchDocs call to resume went: "none" before any
              \* call, "pending" since a call was made, "ok" (the try block
              \* completed) or "failed" (the catch block ran)
  served,     \* history: the responses the list was built from, one
              \* [url, items] per applied response since the last reset
  filtered    \* the memoised visible subset, lines 94-109

vars == <<pc, docs, page, hasMore, loading, error, selected, q, agency, docType,
          startDate, endDate, bookmarks, storage, persisted, inflight, issued,
          outcome, served, filtered>>

fetchVars == <<docs, page, hasMore, loading, error, inflight, issued, outcome,
               served>>
filterVars == <<agency, docType, startDate, endDate>>
storeVars == <<bookmarks, storage, persisted>>

\* the state cells as useState initialises them, over a given storage content
Boot(st) ==
  /\ pc = "boot"
  /\ docs = <<>> /\ page = 1 /\ hasMore = TRUE /\ loading = FALSE /\ error = ""
  /\ selected = <<>>
  /\ q = <<>> /\ agency = "" /\ docType = "" /\ startDate = <<>> /\ endDate = <<>>
  /\ bookmarks = JsonArray(<<>>)
  /\ storage = st
  /\ persisted = FALSE
  /\ inflight = <<>>
  /\ issued = <<>>
  /\ outcome = "none"
  /\ served = <<>>
  /\ filtered = <<>>

\* ------------------------------------------------------------ the fetcher
\* Faulty variants of the definitions below; each property that rests on a
\* definition must reject its variant.
\* a search that asks for the page after the current one
NextPageNeverResets(reset, pg) == pg + 1
\* a catch block without the fallback text
ErrorMessageNoFallback(message) == message
\* a Search button that stays enabled while loading
SearchAlwaysEnabled == TRUE
\* a Load More button that ignores the more-available flag
LoadMoreIgnoresHasMore == ~loading

\* const nextPage = reset ? 1 : page + 1
NextPageOf(reset, pg) == IF reset THEN 1 ELSE pg + 1

\* e.message || "Unknown error"
ErrorMessage(message) == IF message = "" THEN "Unknown error" ELSE message

\* disabled={loading} on the Search button
SearchEnabled == ~loading
\* disabled={loading || !hasMore} on the Load More button
LoadMoreEnabled == ~loading /\ hasMore

\* What a fetchDocs call holds while it awaits: its argument, the page it
\* computed and the URL it requested.
Request(reset) ==
  [reset |-> reset,
   nextPage |-> NextPageOf(reset, page),
   url |-> buildUrl(NextPageOf(reset, page), q)]

\* the result cells as a fetchDocs call finds them
Snapshot == [docs |-> docs, page |-> page, hasMore |-> hasMore, selected |-> selected]

RemoveAt(s, i) == SubSeq(s, 1, i - 1) \o SubSeq(s, i + 1, Len(s))

\* fetchDocs up to its first await
fetchDocs(reset) ==
  /\ loading' = TRUE
  /\ error' = ""
  /\ inflight' = Append(inflight, Request(reset))
  /\ issued' = <<Snapshot>>
  /\ outcome' = "pending"
  /\ UNCHANGED <<docs, page, hasMore, selected, served, filtered>>

\* the try block after the awaits, for the call at position i
ApplyResponse(i, items) ==
  /\ hasMore' = (Len(items) # 0)
  /\ page' = inflight[i].nextPage
  /\ docs' = IF inflight[i].reset THEN items ELSE docs \o items
  /\ selected' = IF inflight[i].reset THEN <<>> ELSE selected
  /\ loading' = FALSE
  /\ inflight' = RemoveAt(inflight, i)
  /\ issued' = IF inflight' = <<>> THEN <<>> ELSE issued
  /\ outcome' = "ok"
  /\ served' = IF inflight[i].reset
                THEN <<[url |-> inflight[i].url, items |-> items]>>
                ELSE Append(served, [url |-> inflight[i].url, items |-> items])
  /\ filtered' = Filter(docs', agency, docType, startDate, endDate)
  /\ UNCHANGED <<pc, error, q, filterVars, storeVars>>

\* Faulty variant: a response is applied only if its call is the newest in
\* flight, and is dropped otherwise.
ResponseOkNewestOnly(i, items) ==
  /\ pc = "running"
  /\ i \in DOMAIN inflight
  /\ IF i = Len(inflight)
     THEN ApplyResponse(i, items)
     ELSE /\ inflight' = RemoveAt(inflight, i)
          /\ issued' = IF inflight' = <<>> THEN <<>> ELSE issued
          /\ outcome' = "ok"
          /\ UNCHANGED <<pc, docs, page, hasMore, loading, error, selected, served,
                         filtered, q, filterVars, storeVars>>

\* fetchDocs resumed with an ok response whose results are items
ResponseOk(i, items) ==
  /\ pc = "running"
  /\ i \in DOMAIN inflight
  /\ ApplyResponse(i, items)

\* fetchDocs resumed by a rejected fetch, a non-ok status or an unreadable
\* body: the catch block, message being e.message
ResponseFail(i, message) ==
  /\ pc = "running"
  /\ i \in DOMAIN inflight
  /\ error' = ErrorMessage(message)
  /\ loading' = FALSE
  /\ inflight' = RemoveAt(inflight, i)
  /\ issued' = IF inflight' = <<>> THEN <<>> ELSE issued
  /\ outcome' = "failed"
  /\ UNCHANGED <<pc, docs, page, hasMore, selected, served, filtered, q, filterVars,
                 storeVars>>

\* the Search button
Search ==
  /\ pc = "running"
  /\ SearchEnabled
  /\ fetchDocs(TRUE)
  /\ UNCHANGED <<pc, q, filterVars, storeVars>>

\* the Load More button
LoadMore ==
  /\ pc = "running"
  /\ LoadMoreEnabled
  /\ page < MaxPage
  /\ fetchDocs(FALSE)
  /\ UNCHANGED <<pc, q, filterVars, storeVars>>

\* fetchDocs(true) called although a request is in flight
SearchBypassed ==
  /\ pc = "running"
  /\ loading
  /\ Len(inflight) < MaxInflight
  /\ fetchDocs(TRUE)
  /\ UNCHANGED <<pc, q, filterVars, storeVars>>

\* fetchDocs(false) called although a request is in flight
LoadMoreBypassed ==
  /\ pc = "running"
  /\ loading
  /\ hasMore
  /\ Len(inflight) < MaxInflight
  /\ page < MaxPage
  /\ fetchDocs(FALSE)
  /\ UNCHANGED <<pc, q, filterVars, storeVars>>

\* ------------------------------------------------------------- bookmarks
\* bookmarks.length and bookmarks.map in the render: a TypeError unless the
\* value is an array
RendersOk(value) == value.t = "array"

StoreOk(st, ok) == ok /\ st.t # "blocked"

isBookmarked(docNumber) == \E i \in DOMAIN bookmarks.v : bookmarks.v[i] = JsonString(docNumber)

Toggled(prev, docNumber) ==
  IF \E i \in DOMAIN prev : prev[i] = JsonString(docNumber)
  THEN SelectSeq(prev, LAMBDA n : n # JsonString(docNumber))
  ELSE Append(prev, JsonString(docNumber))

\* toggleBookmark, the re-render and the storage effect that follows it
toggleBookmark(docNumber, ok) ==
  /\ bookmarks' = JsonArray(Toggled(bookmarks.v, docNumber))
  /\ storage' = StoreValue(storage, bookmarks', ok)
  /\ persisted' = StoreOk(storage, ok)
  /\ UNCHANGED <<pc, fetchVars, selected, filtered, q, filterVars>>

\* the star button of a card
ToggleCard(i, ok) ==
  /\ pc = "running"
  /\ i \in DOMAIN filtered
  /\ toggleBookmark(filtered[i].document_number, ok)

\* the bookmark button of the detail drawer
ToggleDrawer(ok) ==
  /\ pc = "running"
  /\ selected # <<>>
  /\ toggleBookmark(selected[1].document_number, ok)

\* first render and the two mount effects: the storage write, then the
\* initial load
Mount(ok) ==
  /\ pc = "boot"
  /\ bookmarks' = LoadValue(storage, JsonArray(<<>>))
  /\ IF RendersOk(bookmarks')
     THEN /\ pc' = "running"
          /\ storage' = StoreValue(storage, bookmarks', ok)
          /\ persisted' = StoreOk(storage, ok)
          /\ fetchDocs(TRUE)
          /\ UNCHANGED <<q, filterVars>>
     ELSE /\ pc' = "crashed"
          /\ UNCHANGED <<fetchVars, selected, filtered, q, filterVars, storage, persisted>>

\* ------------------------------------------------------ the other controls
SetQ(k) ==
  /\ pc = "running"
  /\ q' = k
  /\ UNCHANGED <<pc, fetchVars, selected, filtered, filterVars, storeVars>>

Refilter(ag, ty, sd, ed) ==
  /\ pc = "running"
  /\ agency' = ag /\ docType' = ty /\ startDate' = sd /\ endDate' = ed
  /\ filtered' = Filter(docs, ag, ty, sd, ed)
  /\ UNCHANGED <<pc, fetchVars, selected, q, storeVars>>

SetAgency(a) == a \in {""} \cup AgencyOptions(docs) /\ Refilter(a, docType, startDate, endDate)
SetDocType(ty) == ty \in {""} \cup TypeOptions(docs) /\ Refilter(agency, ty, startDate, endDate)
SetStartDate(d) == Refilter(agency, docType, d, endDate)
SetEndDate(d) == Refilter(agency, docType, startDate, d)
ResetFilters == Refilter("", "", <<>>, <<>>)

\* View Details on a card
SelectCard(i) ==
  /\ pc = "running"
  /\ i \in DOMAIN filtered
  /\ selected' = <<filtered[i]>>
  /\ UNCHANGED <<pc, fetchVars, filtered, q, filterVars, storeVars>>

\* a chip of the bookmark strip: docs.find by document number
SelectBookmark(j) ==
  /\ pc = "running"
  /\ j \in DOMAIN bookmarks.v
  /\ \E i \in DOMAIN docs :
       /\ JsonString(docs[i].document_number) = bookmarks.v[j]
       /\ \A h \in 1..(i - 1) : JsonString(docs[h].document_number) # bookmarks.v[j]
       /\ selected' = <<docs[i]>>
  /\ UNCHANGED <<pc, fetchVars, filtered, q, filterVars, storeVars>>

\* Close, or a click on the backdrop
Close ==
  /\ pc = "running"
  /\ selected # <<>>
  /\ selected' = <<>>
  /\ UNCHANGED <<pc, fetchVars, filtered, q, filterVars, storeVars>>

\* ------------------------------------------------------------ environment
\* result pages the server answers with
Pages == {<<>>, <<DocA, DocB>>}
\* e.message of what fetchDocs catches
Messages == {"Request failed: 500", ""}
\* what the user types into the keyword box
Keywords == {<<>>, <<" ", "x">>}
DateChoices == {<<>>, D20240101, D20240315, D20240401, D20241231}
AgencyChoices == {"", "EPA", "SEC"}
TypeChoices == {"", "Rule", "Notice"}

\* ---------------------------------------------------------- specifications
Init == Boot(Absent)

\* Of the filter panel the agency selector and the start date stand for the
\* four controls here; SpecFilter runs all four over their full domains.
Next ==
  \/ Mount(TRUE)
  \/ Search
  \/ LoadMore
  \/ \E items \in Pages : ResponseOk(1, items)
  \/ \E m \in Messages : ResponseFail(1, m)
  \/ \E k \in Keywords : SetQ(k)
  \/ \E a \in {"", "SEC"} : SetAgency(a)
  \/ \E d \in {<<>>, D20240101} : SetStartDate(d)
  \/ ResetFilters
  \/ \E i \in 1..Len(filtered) : SelectCard(i)
  \/ \E j \in 1..Len(bookmarks.v) : SelectBookmark(j)
  \/ Close
  \/ \E i \in 1..Len(filtered) : ToggleCard(i, TRUE)
  \/ ToggleDrawer(TRUE)

Spec == Init /\ [][Next]_vars

\* The same component with the loading guard of the two buttons bypassed.
\* Stale responses can take the page number back, so the session is capped
\* at MaxPage responses applied per search.
NextUnguarded ==
  \/ Mount(TRUE)
  \/ Search
  \/ LoadMore
  \/ SearchBypassed
  \/ LoadMoreBypassed
  \/ \E i \in 1..MaxInflight : \E items \in Pages :
       /\ ResponseOk(i, items)
       /\ inflight[i].reset \/ Len(served) < MaxPage
  \/ \E i \in 1..MaxInflight : \E m \in Messages : ResponseFail(i, m)

SpecUnguarded == Init /\ [][NextUnguarded]_vars

\* The filter over every document list of up to MaxDocs documents, idle
\* after the initial load returned it.
Loaded(ds) ==
  /\ pc = "running"
  /\ docs = ds /\ page = 1 /\ hasMore = (Len(ds) # 0) /\ loading = FALSE /\ error = ""
  /\ selected = <<>>
  /\ q = <<>> /\ agency = "" /\ docType = "" /\ startDate = <<>> /\ endDate = <<>>
  /\ bookmarks = JsonArray(<<>>)
  /\ storage = Text(JsonStringify(JsonArray(<<>>)))
  /\ persisted = TRUE
  /\ inflight = <<>>
  /\ issued = <<>>
  /\ outcome = "ok"
  /\ served = <<[url |-> buildUrl(1, <<>>), items |-> ds]>>
  /\ filtered = ds

InitFilter == \E ds \in SeqsUpTo(Universe, MaxDocs) : Loaded(ds)

NextFilter ==
  \/ \E a \in AgencyChoices : SetAgency(a)
  \/ \E ty \in TypeChoices : SetDocType(ty)
  \/ \E d \in DateChoices : SetStartDate(d)
  \/ \E d \in DateChoices : SetEndDate(d)
  \/ ResetFilters

SpecFilter == InitFilter /\ [][NextFilter]_vars

\* The bookmark store over every content of the storage key of up to
\* MaxRawLen tokens, with storage writes that may fail.
InitBookmarks ==
  \E st \in {Absent, Blocked} \cup {Text(raw) : raw \in SeqsUpTo(Tokens, MaxRawLen)} : Boot(st)

NextBookmarks ==
  \/ \E ok \in BOOLEAN : Mount(ok)
  \/ ResponseOk(1, <<DocA, DocB>>)
  \/ \E i \in 1..Len(filtered) : SelectCard(i)
  \/ Close
  \/ \E i \in 1..Len(filtered) : \E ok \in BOOLEAN : ToggleCard(i, ok)
  \/ \E ok \in BOOLEAN : ToggleDrawer(ok)

SpecBookmarks == InitBookmarks /\ [][NextBookmarks]_vars

\* ======================================================================
\* Properties
\* ======================================================================

\* a fetchDocs call started in this step
StartStep == Len(inflight') > Len(inflight)
\* a fetchDocs call ran its catch block in this step
FailStep == Len(inflight') < Len(inflight) /\ outcome' = "failed"
\* a fetchDocs call completed its try block in this step
OkStep == Len(inflight') < Len(inflight) /\ outcome' = "ok"

\* C1 (as stated): when a fetch fails, the document list, the page number,
\* the more-available flag and the selected document are exactly what they
\* were before the request was issued, and the error message is non-empty.
C1_FailedFetchRestoresAll ==
  [][FailStep =>
       /\ docs' = issued[1].docs
       /\ page' = issued[1].page
       /\ hasMore' = issued[1].hasMore
       /\ selected' = issued[1].selected
       /\ error' # ""]_vars

\* C1 (amended): when a fetch fails, the document list, the page number and
\* the more-available flag are exactly what they were before the request was
\* issued and the error message is non-empty; neither issuing the request
\* nor its failure changes the selected document (the user may have opened
\* or closed the detail panel meanwhile).
C1_FailedFetchKeepsResults ==
  [][/\ FailStep =>
          /\ docs' = issued[1].docs
          /\ page' = issued[1].page
          /\ hasMore' = issued[1].hasMore
          /\ selected' = selected
          /\ error' # ""
     /\ StartStep => UNCHANGED <<docs, page, hasMore, selected>>]_vars

\* C1 witness: a load-next-page has failed over a loaded list, and the panel
\* was opened while it was in flight.
C1_Witness ==
  /\ outcome = "failed"
  /\ docs # <<>>
  /\ page > 1
  /\ selected # <<>>
  /\ error = "Unknown error"

\* C2: at most one request is in flight, and the loading flag is true
\* exactly when one is.
C2_SingleFlight ==
  /\ Len(inflight) <= 1
  /\ loading <=> inflight # <<>>

\* C2 witness: a load-next-page is in flight, after an earlier request has
\* completed.
C2_Witness == loading /\ Len(inflight) = 1 /\ ~inflight[1].reset /\ docs # <<>>

\* C8: while the more-available flag is false no step issues a
\* load-next-page request; such a click changes nothing.
C8_NoLoadMoreWithoutMore ==
  [][(~hasMore /\ StartStep) => inflight'[Len(inflight')].reset]_vars

\* C8 witness: the last page came back empty and the application is idle
\* over a loaded list, below the page cap.
C8_Witness == pc = "running" /\ ~hasMore /\ ~loading /\ docs # <<>> /\ page < MaxPage

\* C9: the page number starts at 1 and is never below 1; a successful
\* load-next-page adds exactly 1, a successful reset-and-load sets it to 1,
\* and no other step changes it.
C9_PageNumber ==
  /\ page = 1
  /\ [](page >= 1)
  /\ [][IF OkStep
        THEN page' = (IF inflight[1].reset THEN 1 ELSE page + 1)
        ELSE page' = page]_vars

\* C9 witness: the page number has advanced to the cap and a new search is
\* in flight.
C9_Witness == page = MaxPage /\ loading /\ inflight[1].reset

\* ---- the filter (checked under SpecFilter)

\* a <= b in lexicographic order: at the first position where they differ a
\* holds the smaller code unit, or a is a prefix of b
LexLeq(a, b) ==
  LET n == IF Len(a) < Len(b) THEN Len(a) ELSE Len(b)
      diff == {i \in 1..n : a[i] # b[i]}
  IN IF diff = {} THEN Len(a) <= Len(b)
     ELSE \A i \in diff : (\A j \in diff : i <= j) => a[i] < b[i]

\* the document carries a publication date string
HasDate(d) == d.publication_date.t = "string"
\* the publication date is absent or empty
MissingDate(d) == ~HasDate(d) \/ d.publication_date.s = <<>>

\* the four predicates of the visible subset under the current filter fields
SatisfiesAll(d) ==
  /\ agency = "" \/ \E i \in DOMAIN AgencyNames(d) : AgencyNames(d)[i] = agency
  /\ docType = "" \/ d.document_type = JStr(docType)
  /\ startDate = <<>> \/ (HasDate(d) /\ LexLeq(startDate, d.publication_date.s))
  /\ endDate = <<>> \/ (HasDate(d) /\ LexLeq(d.publication_date.s, endDate))

\* C3: the visible subset is exactly the loaded documents, in loaded order,
\* that satisfy all four predicates (empty field satisfied; agency by
\* membership; type by equality; dates lexicographic and inclusive).
C3_VisibleIsExactlyMatching == filtered = SelectSeq(docs, SatisfiesAll)

\* C4: a loaded document whose publication date is missing is not visible
\* while the start-date or the end-date filter is set.
C4_MissingDateExcluded ==
  (startDate # <<>> \/ endDate # <<>>) =>
    \A i \in DOMAIN docs : MissingDate(docs[i]) => docs[i] \notin Range(filtered)

\* ---- the bookmark store (checked under SpecBookmarks)

Elements(v) == {v[i] : i \in DOMAIN v}

\* what a fresh startup would read from the storage key
Reloaded == LoadValue(storage, JsonArray(<<>>))

\* C5: once the last storage write has succeeded, the stored text decodes
\* to the same set of identifiers as the bookmark set in memory, so a fresh
\* startup reproduces it.
C5_StorageRoundTrip ==
  (pc = "running" /\ persisted) =>
    /\ Reloaded.t = "array"
    /\ Elements(Reloaded.v) = Elements(bookmarks.v)

\* C5 witness: one document was bookmarked and un-bookmarked again, another
\* is bookmarked, and the write went through.
C5_Witness ==
  /\ pc = "running" /\ persisted
  /\ isBookmarked("2024-05001")
  /\ ~isBookmarked("2024-05000")
  /\ Len(storage.raw) = 3

\* the storage key holds a JSON array of identifier strings
WellFormed(st) ==
  /\ st.t = "text"
  /\ JsonParse(st.raw).ok
  /\ JsonParse(st.raw).val.t = "array"
  /\ \A e \in Elements(JsonParse(st.raw).val.v) : e.t = "string"

\* C6: startup over an absent, unreadable or malformed storage key leaves
\* the application running with an empty bookmark set and no error shown.
C6_MalformedStartsEmpty ==
  [][(pc = "boot" /\ ~WellFormed(storage)) =>
       (pc' = "running" /\ bookmarks' = JsonArray(<<>>) /\ error' = "")]_vars

\* no identifier string occurs twice in v
NoDuplicateIds(v) ==
  \A i, j \in DOMAIN v : (v[i].t = "string" /\ v[i] = v[j]) => i = j

\* C7: the bookmark sequence holds no identifier twice, in memory and in its
\* durable copy.
C7_NoDuplicates ==
  pc = "running" =>
    /\ NoDuplicateIds(bookmarks.v)
    /\ (Reloaded.t = "array" => NoDuplicateIds(Reloaded.v))

\* ---- the loading guard bypassed (checked under SpecUnguarded)

\* C10: every ok response is applied as it arrives, to whatever the state
\* then is, with the page number its own call computed when it was made; no
\* step asks whether the call is the newest.
C10_AppliedInArrivalOrder ==
  [][OkStep =>
       \E i \in DOMAIN inflight : \E items \in Pages :
          /\ inflight' = RemoveAt(inflight, i)
          /\ page' = inflight[i].nextPage
          /\ docs' = (IF inflight[i].reset THEN items ELSE docs \o items)
          /\ hasMore' = (items # <<>>)]_vars

\* C10 witness: two overlapping load-next-page calls both asked for page 2
\* and both were appended: three pages of documents, page number 2.
C10_Witness ==
  /\ ~loading
  /\ page = 2
  /\ docs = <<DocA, DocB>> \o <<DocA, DocB>> \o <<DocA, DocB>>

\* ---- the provenance of the loaded list (checked under Spec)

RECURSIVE ConcatItems(_)
\* the results of a run of responses, one after the other
ConcatItems(log) ==
  IF log = <<>> THEN <<>> ELSE log[1].items \o ConcatItems(Tail(log))

\* no request is in flight and at least one fetch has succeeded
IdleAfterSuccess == inflight = <<>> /\ served # <<>>

\* the list is the responses for pages 1 to the current page, in order
PagesOneToCurrent ==
  /\ Len(served) = page
  /\ \A k \in DOMAIN served : served[k].url.page = k
  /\ docs = ConcatItems(served)

\* every response the list was built from was requested with the keyword
\* of the reset-and-load that began the list
OneKeyword ==
  \A k \in DOMAIN served :
     /\ served[k].url.term = served[1].url.term
     /\ served[1].url.page = 1

\* C11: whenever no request is in flight and at least one fetch has
\* succeeded, the loaded document list is the in-order concatenation of the
\* responses for pages 1 to the current page number, all of them requested
\* with the keyword of the last successful reset-and-load.
C11_OneQueryPages == IdleAfterSuccess => (PagesOneToCurrent /\ OneKeyword)

====
